---- MODULE Spec2Model ----
(***************************************************************************)
(* route53-transfer-ng: the reconciliation core of route53_transfer/app.py *)
(* (skip_apex_soa_ns, compute_changes, assign_change_priority,             *)
(* changes_to_r53_updates) and the load command that drives it.            *)
(*                                                                         *)
(* Three specifications share the variables:                               *)
(*   Spec      the load command, from zone lookup to the last commit;      *)
(*   SpecDiff  compute_changes applied to bounded record collections;      *)
(*   SpecPlan  changes_to_r53_updates applied to bounded change lists.     *)
(***************************************************************************)
EXTENDS Integers, Sequences, FiniteSets, TLC

VARIABLES pc, zone, dry_run, use_upsert, existing_records, desired_records,
          changes, r53_update_batches, n, out, calls

vars == <<pc, zone, dry_run, use_upsert, existing_records, desired_records,
          changes, r53_update_batches, n, out, calls>>

(***************************************************************************)
(* Bounds.                                                                 *)
(***************************************************************************)
\* longest record collection handed to compute_changes in SpecDiff
MaxDiffRecords == 2
\* longest record collection listed or read by load in Spec
MaxLoadRecords == 2
\* longest change list handed to changes_to_r53_updates in SpecPlan
MaxChanges == 4

(***************************************************************************)
(* Values.                                                                 *)
(***************************************************************************)
\* Python's None (a missing zone, an absent AliasTarget)
None == [none |-> TRUE]

SeqsUpTo(S, k) == UNION {[1..m -> S] : m \in 0..k}

Range(s) == {s[i] : i \in 1..Len(s)}

RECURSIVE Flatten(_)
Flatten(ss) == IF ss = <<>> THEN <<>> ELSE Head(ss) \o Flatten(Tail(ss))

\* The record names of the model, in Python's str order (the order sorted()
\* uses for key=lambda r: r.Name).
NameOrder == << "a.example.com.", "b.example.com.", "c.example.com.",
                "d.example.com.", "example.com.", "www.example.com." >>

NameRank(name) == CHOOSE i \in 1..Len(NameOrder) : NameOrder[i] = name

\* R53Record: the fields the core reads (Name, Type, AliasTarget.DNSName)
\* and the ones that only take part in structural equality.
R53Record(name, type, value, alias) ==
    [Name |-> name, Type |-> type, SetIdentifier |-> None,
     ResourceRecords |-> value, AliasTarget |-> alias]

PlainRecord(name, type, value) == R53Record(name, type, <<value>>, None)

AliasRecord(name, type, target) ==
    R53Record(name, type, <<>>, [DNSName |-> target])

\* R53Record.is_alias()
is_alias_record(record) == record.AliasTarget # None

(***************************************************************************)
(* skip_apex_soa_ns: the records in order, without the zone's own SOA/NS.  *)
(***************************************************************************)
\* mutant: only NS is recognised as apex infrastructure
skip_apex_soa_ns_only_ns(z, records) ==
    SelectSeq(records,
              LAMBDA record : ~(record.Name = z.name /\ record.Type \in {"NS"}))

skip_apex_soa_ns(z, records) ==
    SelectSeq(records,
              LAMBDA record : ~(record.Name = z.name /\ record.Type \in {"SOA", "NS"}))

\* frozenset(iterable)
frozenset(records) == Range(records)

(***************************************************************************)
(* compute_changes.                                                        *)
(***************************************************************************)
\* is_in_set(record, s): some entry of s has the record's Name
is_in_set(record, s) == \E entry \in s : entry.Name = record.Name

\* sort_by_name(s) = sorted(s, key=lambda r: r.Name).  The sort is stable
\* over the set's iteration order, which is unspecified: every ordering of
\* s that is non-decreasing in Name is a possible result.
sort_by_name(s) ==
    {q \in [1..Cardinality(s) -> s] :
        /\ \A i, j \in 1..Cardinality(s) : i # j => q[i] # q[j]
        /\ \A i, j \in 1..Cardinality(s) :
              i < j => NameRank(q[i].Name) <= NameRank(q[j].Name)}

Change(z, op, record) == [zone |-> z, operation |-> op, record |-> record]

\* mutant: UPSERT is chosen without looking at use_upsert
additions_ignoring_flag(z, added, to_delete, upsert) ==
    [i \in 1..Len(added) |->
        Change(z,
               IF is_in_set(added[i], to_delete) THEN "UPSERT" ELSE "CREATE",
               added[i])]

\* the first loop: one CREATE or UPSERT per record of to_add, appended
additions(z, added, to_delete, upsert) ==
    [i \in 1..Len(added) |->
        Change(z,
               IF upsert /\ is_in_set(added[i], to_delete) THEN "UPSERT" ELSE "CREATE",
               added[i])]

\* mutant: the DELETE of a record whose Name is upserted is not dropped
RECURSIVE deletions_unsuppressed(_, _, _, _, _)
deletions_unsuppressed(z, deleted, to_add, upsert, acc) ==
    IF deleted = <<>> THEN acc
    ELSE deletions_unsuppressed(z, Tail(deleted), to_add, upsert,
                                <<Change(z, "DELETE", Head(deleted))>> \o acc)

\* the second loop: each surviving DELETE is inserted at index 0, so the
\* deletions end up ahead of the additions, last inserted first
RECURSIVE deletions(_, _, _, _, _)
deletions(z, deleted, to_add, upsert, acc) ==
    IF deleted = <<>> THEN acc
    ELSE deletions(z, Tail(deleted), to_add, upsert,
                   IF ~(upsert /\ is_in_set(Head(deleted), to_add))
                   THEN <<Change(z, "DELETE", Head(deleted))>> \o acc
                   ELSE acc)

\* mutant: the desired records are not filtered
compute_changes_desired_unfiltered(z, existing, desired, upsert) ==
    LET existing_set == frozenset(skip_apex_soa_ns(z, existing))
        desired_set  == frozenset(desired)
        to_delete    == existing_set \ desired_set
        to_add       == desired_set \ existing_set
    IN  IF to_add # {} \/ to_delete # {}
        THEN {deletions(z, deleted, to_add, upsert,
                        additions(z, added, to_delete, upsert)) :
                 added \in sort_by_name(to_add), deleted \in sort_by_name(to_delete)}
        ELSE {<<>>}

\* The set of lists compute_changes can return (one per iteration order of
\* the two difference sets).
compute_changes(z, existing, desired, upsert) ==
    LET existing_set == frozenset(skip_apex_soa_ns(z, existing))
        desired_set  == frozenset(skip_apex_soa_ns(z, desired))
        to_delete    == existing_set \ desired_set
        to_add       == desired_set \ existing_set
    IN  IF to_add # {} \/ to_delete # {}
        THEN {deletions(z, deleted, to_add, upsert,
                        additions(z, added, to_delete, upsert)) :
                 added \in sort_by_name(to_add), deleted \in sort_by_name(to_delete)}
        ELSE {<<>>}

(***************************************************************************)
(* assign_change_priority.                                                 *)
(***************************************************************************)
is_same_zone(z, change) == change.zone.id = z.id

is_alias(z, change) == is_alias_record(change.record) /\ is_same_zone(z, change)

is_new_alias(z, change) ==
    is_alias(z, change) /\ change.operation \in {"CREATE", "UPSERT"}

\* rr_prio = defaultdict(int)
rr_prio_empty == [name \in Range(NameOrder) |-> 0]

\* first loop: rr_prio[record.AliasTarget.DNSName] += 1
RECURSIVE count_targets(_, _, _)
count_targets(z, ops, rr_prio) ==
    IF ops = <<>> THEN rr_prio
    ELSE LET change == Head(ops)
             target == change.record.AliasTarget.DNSName
         IN  count_targets(z, Tail(ops),
                 IF is_new_alias(z, change)
                 THEN [rr_prio EXCEPT ![target] = @ + 1]
                 ELSE rr_prio)

\* second loop: rr_prio[record.AliasTarget.DNSName] += rr_prio[record.Name],
\* reading rr_prio as the loop has updated it so far
RECURSIVE propagate(_, _, _)
propagate(z, ops, rr_prio) ==
    IF ops = <<>> THEN rr_prio
    ELSE LET change == Head(ops)
             target == change.record.AliasTarget.DNSName
         IN  propagate(z, Tail(ops),
                 IF is_new_alias(z, change)
                 THEN [rr_prio EXCEPT ![target] = @ + rr_prio[change.record.Name]]
                 ELSE rr_prio)

\* third loop: change["prio"] = rr_prio[record.Name].  The changes are
\* mutated in place; the result is the list as the caller sees it afterwards.
assign_change_priority(z, change_operations) ==
    LET rr_prio == propagate(z, change_operations,
                       count_targets(z, change_operations, rr_prio_empty))
    IN  [i \in 1..Len(change_operations) |->
            [zone      |-> change_operations[i].zone,
             operation |-> change_operations[i].operation,
             record    |-> change_operations[i].record,
             prio      |-> rr_prio[change_operations[i].record.Name]]]

(***************************************************************************)
(* changes_to_r53_updates.                                                 *)
(***************************************************************************)
\* ChangeBatch() and ChangeBatch.add_change: a batch is its list of changes
ChangeBatch == <<>>

add_change(batch, change) == Append(batch, change)

\* sorted(change_operations, key=lambda c: c["prio"], reverse=True): a
\* stable sort, so changes of equal prio keep their relative order
\* mutant: a change is put ahead of the changes of its own prio
RECURSIVE insert_by_prio_unstable(_, _)
insert_by_prio_unstable(sorted, change) ==
    IF sorted = <<>> THEN <<change>>
    ELSE IF Head(sorted).prio > change.prio
         THEN <<Head(sorted)>> \o insert_by_prio_unstable(Tail(sorted), change)
         ELSE <<change>> \o sorted

RECURSIVE insert_by_prio(_, _)
insert_by_prio(sorted, change) ==
    IF sorted = <<>> THEN <<change>>
    ELSE IF Head(sorted).prio >= change.prio
         THEN <<Head(sorted)>> \o insert_by_prio(Tail(sorted), change)
         ELSE <<change>> \o sorted

\* mutant: reverse=True is missing, the sort is ascending
RECURSIVE sorted_by_prio_ascending(_)
sorted_by_prio_ascending(ops) ==
    IF ops = <<>> THEN <<>>
    ELSE LET rest == sorted_by_prio_ascending(SubSeq(ops, 1, Len(ops) - 1))
             last == ops[Len(ops)]
             k    == Cardinality({i \in 1..Len(rest) : rest[i].prio <= last.prio})
         IN  SubSeq(rest, 1, k) \o <<last>> \o SubSeq(rest, k + 1, Len(rest))

RECURSIVE sorted_by_prio(_)
sorted_by_prio(ops) ==
    IF ops = <<>> THEN <<>>
    ELSE insert_by_prio(sorted_by_prio(SubSeq(ops, 1, Len(ops) - 1)), ops[Len(ops)])

\* the for loop; current_prio is {} for None and {p} for the integer p
RECURSIVE batch_loop(_, _, _, _)
batch_loop(ops, batches, current_batch, current_prio) ==
    IF ops = <<>>
    THEN IF current_batch # <<>> THEN Append(batches, current_batch) ELSE batches
    ELSE LET change == Head(ops)
             order  == change.prio
             prio1  == IF current_prio = {} THEN {order} ELSE current_prio
             split  == prio1 # {order}
         IN  batch_loop(Tail(ops),
                 IF split /\ current_batch # <<>>
                 THEN Append(batches, current_batch) ELSE batches,
                 add_change(IF split THEN ChangeBatch ELSE current_batch, change),
                 {order})

changes_to_r53_updates(z, change_operations) ==
    batch_loop(sorted_by_prio(assign_change_priority(z, change_operations)),
               <<>>, ChangeBatch, {})

(***************************************************************************)
(* SpecDiff: compute_changes on bounded inputs.                            *)
(***************************************************************************)
\* Two zones over the same records: each makes a different name the apex.
DiffZones == {[name |-> "example.com.", id |-> "Z1"],
              [name |-> "www.example.com.", id |-> "Z2"]}

\* SOA, NS and A record sets at both names; two values at example.com.
DiffRecords ==
    {r \in {PlainRecord(name, type, value) :
                name \in {"example.com.", "www.example.com."},
                type \in {"SOA", "NS", "A"},
                value \in {"v1", "v2"}} :
        r.Name = "example.com." \/ r.ResourceRecords = <<"v1">>}

DiffInit ==
    /\ pc = "diff_call"
    /\ zone \in DiffZones
    /\ dry_run = FALSE
    /\ use_upsert \in BOOLEAN
    /\ existing_records \in SeqsUpTo(DiffRecords, MaxDiffRecords)
    /\ desired_records \in SeqsUpTo(DiffRecords, MaxDiffRecords)
    /\ changes = <<>>
    /\ r53_update_batches = <<>>
    /\ n = 0
    /\ out = <<>>
    /\ calls = <<>>

DiffCall ==
    /\ pc = "diff_call"
    /\ changes' \in compute_changes(zone, existing_records, desired_records, use_upsert)
    /\ pc' = "diff_ret"
    /\ UNCHANGED <<zone, dry_run, use_upsert, existing_records, desired_records,
                   r53_update_batches, n, out, calls>>

DiffNext == DiffCall

SpecDiff == DiffInit /\ [][DiffNext]_vars

(***************************************************************************)
(* SpecPlan: changes_to_r53_updates on bounded change lists.               *)
(***************************************************************************)
PlanZones == {[name |-> "example.com.", id |-> "Z1"],
              [name |-> "example.org.", id |-> "Z2"]}

\* one plain record and three aliases, each pointing at the next name
PlanRecords ==
    {PlainRecord("d.example.com.", "A", "v1"),
     AliasRecord("a.example.com.", "A", "d.example.com."),
     AliasRecord("b.example.com.", "A", "a.example.com."),
     AliasRecord("c.example.com.", "A", "b.example.com.")}

\* the changes carry zone Z1; the zone argument is either zone
PlanChanges ==
    {Change([name |-> "example.com.", id |-> "Z1"], op, record) :
        op \in {"CREATE", "DELETE", "UPSERT"}, record \in PlanRecords}

PlanInit ==
    /\ pc = "plan_call"
    /\ zone \in PlanZones
    /\ dry_run = FALSE
    /\ use_upsert = FALSE
    /\ existing_records = <<>>
    /\ desired_records = <<>>
    /\ changes \in SeqsUpTo(PlanChanges, MaxChanges)
    /\ r53_update_batches = <<>>
    /\ n = 0
    /\ out = <<>>
    /\ calls = <<>>

PlanCall ==
    /\ pc = "plan_call"
    /\ r53_update_batches' = changes_to_r53_updates(zone, changes)
    /\ changes' = assign_change_priority(zone, changes)
    /\ pc' = "plan_ret"
    /\ UNCHANGED <<zone, dry_run, use_upsert, existing_records, desired_records,
                   n, out, calls>>

PlanNext == PlanCall

SpecPlan == PlanInit /\ [][PlanNext]_vars

(***************************************************************************)
(* Spec: the load command.  One action per stretch of load between two     *)
(* calls to the provider; the provider's answers are the environment's     *)
(* choice.                                                                 *)
(***************************************************************************)
\* the zone_name argument, and the zone get_zone returns for it: its Name
\* is zone_name + '.'
ZoneName == "example.com"

FoundZone == [name |-> ZoneName \o ".", id |-> "Z1"]

\* the zone load makes up in a dry run when the lookup finds nothing
FakeZone == [name |-> ZoneName, id |-> "fake-zone-id"]

LoadRecords ==
    {PlainRecord("example.com.", "NS", "v1"),
     PlainRecord("www.example.com.", "A", "v1"),
     PlainRecord("www.example.com.", "A", "v2"),
     AliasRecord("example.com.", "A", "www.example.com."),
     AliasRecord("a.example.com.", "A", "example.com.")}

Text(s) == [text |-> s]

\* print(f"* Update batch {n} ({len(update_batch.changes)} changes)")
BatchLine(k, batch) == [text |-> "* Update batch", n |-> k, changes |-> Len(batch)]

\* print("    -", change['operation'], change['record'])
ChangeLine(change) ==
    [text |-> "    -", operation |-> change.operation, record |-> change.record]

ChangeLines(batch) == [i \in 1..Len(batch) |-> ChangeLine(batch[i])]

Init ==
    /\ pc = "start"
    /\ zone = None
    /\ dry_run \in BOOLEAN
    /\ use_upsert \in BOOLEAN
    /\ existing_records = <<>>
    /\ desired_records = <<>>
    /\ changes = <<>>
    /\ r53_update_batches = <<>>
    /\ n = 0
    /\ out = <<>>
    /\ calls = <<>>

\* get_zone finds the zone
GetZoneFound ==
    /\ pc = "start"
    /\ zone' = FoundZone
    /\ pc' = "list"
    /\ UNCHANGED <<dry_run, use_upsert, existing_records, desired_records,
                   changes, r53_update_batches, n, out, calls>>

\* get_zone returns None in a dry run: the creation is only printed
GetZoneMissingDryRun ==
    /\ pc = "start"
    /\ dry_run
    /\ out' = Append(out, [text |-> "CREATE ZONE:", zone_name |-> ZoneName])
    /\ zone' = FakeZone
    /\ pc' = "list"
    /\ UNCHANGED <<dry_run, use_upsert, existing_records, desired_records,
                   changes, r53_update_batches, n, calls>>

\* get_zone returns None otherwise: create_zone creates the hosted zone and
\* looks it up again, which may still find nothing
GetZoneMissingCreate ==
    /\ pc = "start"
    /\ ~dry_run
    /\ calls' = Append(calls, [call |-> "create_hosted_zone", Name |-> ZoneName])
    /\ zone' \in {FoundZone, None}
    /\ pc' = "list"
    /\ UNCHANGED <<dry_run, use_upsert, existing_records, desired_records,
                   changes, r53_update_batches, n, out>>

\* get_hosted_zone_record_sets(r53, zone['id'])
ListRecords ==
    /\ pc = "list"
    /\ zone # None
    /\ existing_records' \in SeqsUpTo(LoadRecords, MaxLoadRecords)
    /\ pc' = "read"
    /\ UNCHANGED <<zone, dry_run, use_upsert, desired_records, changes,
                   r53_update_batches, n, out, calls>>

\* zone['id'] on None raises TypeError; the listing itself may raise (it
\* does for an id the provider does not know).  load handles neither.
ListRecordsRaises ==
    /\ pc = "list"
    /\ pc' = "raised"
    /\ UNCHANGED <<zone, dry_run, use_upsert, existing_records, desired_records,
                   changes, r53_update_batches, n, out, calls>>

\* read_records(file_in, format=format)
ReadRecords ==
    /\ pc = "read"
    /\ desired_records' \in SeqsUpTo(LoadRecords, MaxLoadRecords)
    /\ pc' = "compute"
    /\ UNCHANGED <<zone, dry_run, use_upsert, existing_records, changes,
                   r53_update_batches, n, out, calls>>

\* compute_changes and the message that follows it
ComputeChanges ==
    /\ pc = "compute"
    /\ changes' \in compute_changes(zone, existing_records, desired_records, use_upsert)
    /\ out' = Append(out, IF dry_run
                          THEN Text("Dry-run requested. No changes are going to be applied")
                          ELSE Text("Applying changes..."))
    /\ pc' = "plan"
    /\ UNCHANGED <<zone, dry_run, use_upsert, existing_records, desired_records,
                   r53_update_batches, n, calls>>

\* n = 1 and the iterable of the for loop, evaluated once
PlanBatches ==
    /\ pc = "plan"
    /\ r53_update_batches' = changes_to_r53_updates(zone, changes)
    /\ changes' = assign_change_priority(zone, changes)
    /\ n' = 1
    /\ pc' = "loop"
    /\ UNCHANGED <<zone, dry_run, use_upsert, existing_records, desired_records,
                   out, calls>>

\* one iteration of the loop in a dry run: the batch is printed
PrintBatch ==
    /\ pc = "loop"
    /\ n <= Len(r53_update_batches)
    /\ dry_run
    /\ out' = Append(out, BatchLine(n, r53_update_batches[n]))
                 \o ChangeLines(r53_update_batches[n])
    /\ n' = n + 1
    /\ UNCHANGED <<pc, zone, dry_run, use_upsert, existing_records,
                   desired_records, changes, r53_update_batches, calls>>

\* mutant: the commit is called in a dry run too
CommitCallInDryRun ==
    /\ pc = "loop"
    /\ n <= Len(r53_update_batches)
    /\ out' = Append(out, BatchLine(n, r53_update_batches[n]))
    /\ calls' = Append(calls, [call |-> "commit", batch |-> r53_update_batches[n],
                               zone |-> zone])
    /\ pc' = "commit"
    /\ UNCHANGED <<zone, dry_run, use_upsert, existing_records, desired_records,
                   changes, r53_update_batches, n>>

\* one iteration otherwise: update_batch.commit(r53, zone) is called ...
CommitCall ==
    /\ pc = "loop"
    /\ n <= Len(r53_update_batches)
    /\ ~dry_run
    /\ out' = Append(out, BatchLine(n, r53_update_batches[n]))
    /\ calls' = Append(calls, [call |-> "commit", batch |-> r53_update_batches[n],
                               zone |-> zone])
    /\ pc' = "commit"
    /\ UNCHANGED <<zone, dry_run, use_upsert, existing_records, desired_records,
                   changes, r53_update_batches, n>>

\* ... and returns: n += 1 and the loop goes on
CommitReturn ==
    /\ pc = "commit"
    /\ calls' = Append(calls, [call |-> "commit_return"])
    /\ n' = n + 1
    /\ pc' = "loop"
    /\ UNCHANGED <<zone, dry_run, use_upsert, existing_records, desired_records,
                   changes, r53_update_batches, out>>

\* mutant: the exception is swallowed and the loop goes on
CommitRaiseSwallowed ==
    /\ pc = "commit"
    /\ calls' = Append(calls, [call |-> "commit_raise"])
    /\ n' = n + 1
    /\ pc' = "loop"
    /\ UNCHANGED <<zone, dry_run, use_upsert, existing_records, desired_records,
                   changes, r53_update_batches, out>>

\* ... or raises: nothing in load catches it
CommitRaise ==
    /\ pc = "commit"
    /\ calls' = Append(calls, [call |-> "commit_raise"])
    /\ pc' = "raised"
    /\ UNCHANGED <<zone, dry_run, use_upsert, existing_records, desired_records,
                   changes, r53_update_batches, n, out>>

\* the loop has no break, so its else clause always runs; then "Done."
LoopElse ==
    /\ pc = "loop"
    /\ n > Len(r53_update_batches)
    /\ out' = out \o <<Text("No changes."), Text("Done.")>>
    /\ pc' = "done"
    /\ UNCHANGED <<zone, dry_run, use_upsert, existing_records, desired_records,
                   changes, r53_update_batches, n, calls>>

Next ==
    \/ GetZoneFound
    \/ GetZoneMissingDryRun
    \/ GetZoneMissingCreate
    \/ ListRecords
    \/ ListRecordsRaises
    \/ ReadRecords
    \/ ComputeChanges
    \/ PlanBatches
    \/ PrintBatch
    \/ CommitCall
    \/ CommitReturn
    \/ CommitRaise
    \/ LoopElse

Spec == Init /\ [][Next]_vars

(***************************************************************************)
(* Vocabulary of the properties, stated apart from the operators above.    *)
(***************************************************************************)
\* an apex infrastructure record of zone z
IsApexInfra(z, record) == record.Name = z.name /\ record.Type \in {"SOA", "NS"}

\* the distinct records of a collection that are not apex infrastructure
NonApex(z, records) == {r \in Range(records) : ~IsApexInfra(z, r)}

ToAdd == NonApex(zone, desired_records) \ NonApex(zone, existing_records)

ToDelete == NonApex(zone, existing_records) \ NonApex(zone, desired_records)

\* the positions of the changes with operation op and record r
Positions(op, r) ==
    {i \in 1..Len(changes) : changes[i].operation = op /\ changes[i].record = r}

RecordsOf(op) ==
    {changes[i].record : i \in {j \in 1..Len(changes) : changes[j].operation = op}}

SharesName(r, s) == \E e \in s : e.Name = r.Name

\* The provider's effect of a change list on a set of record sets: DELETE
\* removes the record, CREATE adds it, UPSERT replaces the record set with
\* the same Name, Type and SetIdentifier, or adds it.
RECURSIVE Apply(_, _)
Apply(ops, records) ==
    IF ops = <<>> THEN records
    ELSE LET op == Head(ops).operation
             r  == Head(ops).record
         IN  Apply(Tail(ops),
                 CASE op = "DELETE" -> records \ {r}
                   [] op = "CREATE" -> records \cup {r}
                   [] op = "UPSERT" ->
                        {e \in records : ~(/\ e.Name = r.Name
                                           /\ e.Type = r.Type
                                           /\ e.SetIdentifier = r.SetIdentifier)}
                            \cup {r})

(***************************************************************************)
(* Properties of compute_changes (SpecDiff).                               *)
(***************************************************************************)
\* C2 (idempotence): compute_changes(zone, X, X, use_upsert) returns the
\* empty list, whatever X holds (repeated records, apex SOA/NS records) and
\* for both values of use_upsert.
C2_Idempotence ==
    (pc = "diff_ret" /\ existing_records = desired_records) => changes = <<>>

\* reached: X holds the same non-apex record twice
C2_Witness ==
    /\ pc = "diff_ret"
    /\ existing_records = desired_records
    /\ Len(desired_records) = 2
    /\ desired_records[1] = desired_records[2]
    /\ ~IsApexInfra(zone, desired_records[1])
    /\ use_upsert

\* C3 (apex exclusion): no change returned by compute_changes has a record
\* whose Name is the zone's name and whose Type is SOA or NS.
C3_ApexExclusion ==
    pc = "diff_ret" => \A i \in 1..Len(changes) : ~IsApexInfra(zone, changes[i].record)

\* reached: apex SOA/NS records differ between the two sides, and other
\* records changed
C3_Witness ==
    /\ pc = "diff_ret"
    /\ changes # <<>>
    /\ \E e \in Range(existing_records), d \in Range(desired_records) :
          /\ IsApexInfra(zone, e) /\ IsApexInfra(zone, d) /\ e # d
          /\ e \notin Range(desired_records)
          /\ d \notin Range(existing_records)

\* exactly one CREATE per distinct non-apex desired record, one DELETE per
\* distinct non-apex existing record, and nothing else
CreatesAndDeletesOnly ==
    /\ RecordsOf("UPSERT") = {}
    /\ RecordsOf("CREATE") = NonApex(zone, desired_records)
    /\ RecordsOf("DELETE") = NonApex(zone, existing_records)
    /\ Len(changes) = Cardinality(NonApex(zone, desired_records))
                         + Cardinality(NonApex(zone, existing_records))

Disjoint == Range(existing_records) \cap Range(desired_records) = {}

\* C4 as claimed: for both values of use_upsert, collections that share no
\* record yield one CREATE per non-apex desired record, one DELETE per
\* non-apex existing record and no UPSERT.
C4_Original ==
    (pc = "diff_ret" /\ Disjoint) => CreatesAndDeletesOnly

\* C4 (completeness under disjointness), amended: the same, provided
\* use_upsert is false or no non-apex desired record has the Name of a
\* non-apex existing record.
C4_Completeness ==
    (/\ pc = "diff_ret"
     /\ Disjoint
     /\ \/ ~use_upsert
        \/ \A d \in NonApex(zone, desired_records) :
              ~SharesName(d, NonApex(zone, existing_records)))
    => CreatesAndDeletesOnly

\* reached: disjoint collections with a shared Name, without upsert
C4_Witness ==
    /\ pc = "diff_ret"
    /\ Disjoint
    /\ ~use_upsert
    /\ \E d \in NonApex(zone, desired_records) :
          SharesName(d, NonApex(zone, existing_records))
    /\ \E e \in Range(existing_records) : IsApexInfra(zone, e)

\* C5 (upsert merge): with use_upsert, every record of toAdd whose Name is
\* shared by a record of toDelete gets exactly one UPSERT, and no CREATE or
\* DELETE is emitted for any record of that Name; a single retyped record
\* yields the single change UPSERT(A').
C5_UpsertMerge ==
    (pc = "diff_ret" /\ use_upsert) =>
        /\ \A r \in ToAdd :
              SharesName(r, ToDelete) =>
                 /\ Cardinality(Positions("UPSERT", r)) = 1
                 /\ \A i \in 1..Len(changes) :
                       changes[i].record.Name = r.Name
                          => changes[i].operation = "UPSERT"
        /\ (/\ Len(existing_records) = 1
            /\ Len(desired_records) = 1
            /\ existing_records[1].Name = desired_records[1].Name
            /\ existing_records[1].Type # desired_records[1].Type
            /\ ~IsApexInfra(zone, existing_records[1])
            /\ ~IsApexInfra(zone, desired_records[1]))
           => changes = <<Change(zone, "UPSERT", desired_records[1])>>

\* reached: two records added at a Name at which one is deleted
C5_Witness ==
    /\ pc = "diff_ret"
    /\ use_upsert
    /\ \E r \in ToAdd : SharesName(r, ToDelete) /\ r.Type \notin {x.Type : x \in ToDelete}
    /\ Cardinality(ToAdd) = 2
    /\ Len(changes) = 2

\* C9 (convergence), as claimed: applying the returned changes in order to
\* the non-apex existing records yields exactly the non-apex desired
\* records.
C9_Convergence ==
    pc = "diff_ret" =>
        Apply(changes, NonApex(zone, existing_records)) = NonApex(zone, desired_records)

(***************************************************************************)
(* Properties of changes_to_r53_updates (SpecPlan).                        *)
(***************************************************************************)
\* the index of the batch that holds change c (changes of one Name share a
\* prio, so a change that occurs twice occurs in one batch)
BatchOf(c) ==
    CHOOSE k \in 1..Len(r53_update_batches) : c \in Range(r53_update_batches[k])

\* C1 (targets before aliases), as claimed: whenever the list holds a CREATE
\* or UPSERT of an alias record R of the zone and a change whose record Name
\* is R's AliasTarget.DNSName, the batch of the target's change comes
\* strictly earlier than the batch of R's change, for alias chains of any
\* length and any order of the list.
C1_TargetBatchFirst ==
    pc = "plan_ret" =>
        \A i, j \in 1..Len(changes) :
            (/\ is_new_alias(zone, changes[i])
             /\ changes[j].record.Name = changes[i].record.AliasTarget.DNSName)
            => BatchOf(changes[j]) < BatchOf(changes[i])

Count(x, seq) == Cardinality({i \in 1..Len(seq) : seq[i] = x})

\* C6 (batch well-formedness): the batches are the grouping of the changes
\* by priority: no batch is empty, a batch holds one priority, priorities
\* strictly decrease from batch to batch, and every input change is in
\* exactly one batch exactly once.
C6_BatchesWellFormed ==
    pc = "plan_ret" =>
        LET batches == r53_update_batches
            all     == Flatten(batches)
        IN  /\ \A k \in 1..Len(batches) : batches[k] # <<>>
            /\ \A k \in 1..Len(batches) :
                  \A i \in 1..Len(batches[k]) : batches[k][i].prio = batches[k][1].prio
            /\ \A k \in 1..(Len(batches) - 1) :
                  batches[k][1].prio > batches[k + 1][1].prio
            /\ Len(all) = Len(changes)
            /\ \A c \in Range(changes) \cup Range(all) : Count(c, all) = Count(c, changes)

\* reached: three batches, one of them with several changes, one change
\* given twice
C6_Witness ==
    /\ pc = "plan_ret"
    /\ Len(r53_update_batches) = 3
    /\ \E k \in 1..3 : Len(r53_update_batches[k]) = 2
    /\ \E c \in Range(changes) : Count(c, changes) = 2

(***************************************************************************)
(* Properties of load (Spec).                                              *)
(***************************************************************************)
IsCommitEvent(c) == c.call \in {"commit", "commit_return", "commit_raise"}

CommitEvents == SelectSeq(calls, IsCommitEvent)

\* C7 (commit ordering): the commits are those of the planned batches, in
\* list order; a commit starts only when the previous one has returned; no
\* commit follows one that raised; load ends normally only with every batch
\* committed.
C7_CommitOrder ==
    LET ce == CommitEvents
    IN  /\ \A i \in 1..Len(ce) :
              /\ (i % 2 = 1) =>
                    /\ ce[i].call = "commit"
                    /\ (i + 1) \div 2 <= Len(r53_update_batches)
                    /\ ce[i].batch = r53_update_batches[(i + 1) \div 2]
              /\ (i % 2 = 0) => ce[i].call \in {"commit_return", "commit_raise"}
              /\ (ce[i].call = "commit_raise") => i = Len(ce)
        /\ (pc = "done" /\ ~dry_run) => Len(ce) = 2 * Len(r53_update_batches)

\* reached: the first commit returned, the second raised, a third batch is
\* left uncommitted
C7_Witness ==
    /\ pc = "raised"
    /\ Len(r53_update_batches) = 3
    /\ Len(CommitEvents) = 4
    /\ CommitEvents[4].call = "commit_raise"

IsChangeLine(line) == line.text = "    -"

\* C8 (dry-run safety): in a dry run load calls neither commit nor
\* create_hosted_zone, whether the zone was found or not, and by the time
\* it is done it has printed every change of every batch, in planned order.
C8_DryRunSafe ==
    dry_run =>
        /\ \A i \in 1..Len(calls) :
              calls[i].call \notin {"commit", "create_hosted_zone"}
        /\ pc = "done" =>
              SelectSeq(out, IsChangeLine) = ChangeLines(Flatten(r53_update_batches))

\* reached: a dry run for a zone that was not found, two batches printed
C8_Witness ==
    /\ dry_run
    /\ pc = "done"
    /\ zone = FakeZone
    /\ Len(r53_update_batches) >= 2
    /\ Len(SelectSeq(out, IsChangeLine)) >= 3

DeletesFirst(ops) ==
    \A i, j \in 1..Len(ops) :
        (i < j /\ ops[j].operation = "DELETE") => ops[i].operation = "DELETE"

\* C10 (deletions before additions): in the list compute_changes returns,
\* and in every batch made of it, every DELETE precedes every CREATE and
\* UPSERT; without use_upsert a DELETE and a CREATE of one Name are in the
\* same batch, the DELETE first.
C10_DeletesFirst ==
    /\ DeletesFirst(changes)
    /\ \A k \in 1..Len(r53_update_batches) : DeletesFirst(r53_update_batches[k])
    /\ (pc \in {"loop", "commit", "done", "raised"} /\ ~use_upsert) =>
          \A i, j \in 1..Len(changes) :
              (/\ changes[i].operation = "DELETE"
               /\ changes[j].operation = "CREATE"
               /\ changes[i].record.Name = changes[j].record.Name)
              => \E k \in 1..Len(r53_update_batches) :
                    \E p, q \in 1..Len(r53_update_batches[k]) :
                        /\ p < q
                        /\ r53_update_batches[k][p] = changes[i]
                        /\ r53_update_batches[k][q] = changes[j]

\* reached: a DELETE and a CREATE of one Name, in the first of two batches
C10_Witness ==
    /\ pc = "done"
    /\ ~use_upsert
    /\ Len(r53_update_batches) = 2
    /\ \E p, q \in 1..Len(r53_update_batches[1]) :
          /\ r53_update_batches[1][p].operation = "DELETE"
          /\ r53_update_batches[1][q].operation = "CREATE"
          /\ r53_update_batches[1][p].record.Name = r53_update_batches[1][q].record.Name

====
